---------------------------- MODULE Spec2Model ----------------------------
(***************************************************************************)
(* lazywireguard: the address allocator (AddressAssigner.py) and the       *)
(* routing-rule compiler (IPTablesRulesGenerator.py), with the generation  *)
(* run of WireguardGenerator.py that drives them.                          *)
(*                                                                         *)
(* Addresses.  An address is [ver, addr]: the IP version (4 or 6) and the  *)
(* offset of the address inside one fixed block of 2^HostBits addresses    *)
(* of that version (for version 4 the block 10.0.0.0/(32-HostBits), for    *)
(* version 6 the block fd00::/(128-HostBits)).  A network is               *)
(* [ver, addr, plen] with the real prefix length, so a /30 is plen = 30    *)
(* and holds four addresses.                                               *)
(***************************************************************************)
EXTENDS Integers, Sequences, FiniteSets, TLC

\* Bounds of the model.
HostBits == 4
MaxExclude == 2
MaxAssign == 8
MaxExcludeFirst == 1
MaxClients == 2
MaxRules == 2

VARIABLES
    \* AddressAssigner fields
    root_network, assignable, net_index, addr_index,
    \* the last call made on the allocator and how it ended
    call,
    \* history: the outcome of every assign() call, in call order
    results,
    \* history: the networks handed to an exclusion call so far
    excluded,
    \* history: TRUE once an exclusion call was made after an assign() call
    excludedAfterAssign,
    \* WireguardGenerator: the hosts (the concentrator first), each with its
    \* assigned addresses, and the "route" list of the configuration
    hosts, route,
    \* IPTablesRule fields
    rule_str, lhs, arrow, rhs,
    \* the file f that generate() prints to, as the lines printed so far
    file,
    \* the exception the run ended with, "none" while there is none
    error,
    \* where the caller is, and the number of rules of route compiled
    pc, rule_index,
    \* the command line arguments, and the artifacts written besides f
    args, artifacts,
    \* WireguardGenerator.__init__: the network definitions of the
    \* topology, host["address"] of every host as the configuration
    \* gives it, the "routed" networks, self._networks as
    \* allocator records, host["fixed_address"] of every host, and the
    \* number of hosts _assign_addresses is through with
    topology, host_address, routed, _networks, fixed_address, host_index

allocVars == <<root_network, assignable, net_index, addr_index, call,
               results, excluded, excludedAfterAssign>>

ruleVars == <<hosts, route, rule_str, lhs, arrow, rhs, file, error, pc,
              rule_index, args, artifacts>>

genVars == <<topology, host_address, routed, _networks, fixed_address,
             host_index>>

vars == <<root_network, assignable, net_index, addr_index, call,
          results, excluded, excludedAfterAssign,
          hosts, route, rule_str, lhs, arrow, rhs, file, error, pc,
          rule_index, args, artifacts,
          topology, host_address, routed, _networks, fixed_address,
          host_index>>

-----------------------------------------------------------------------------
(* ipaddress: the operations of the standard library the code calls.       *)

RECURSIVE Pow2(_)
Pow2(n) == IF n = 0 THEN 1 ELSE 2 * Pow2(n - 1)

MaxPrefixLen(ver) == IF ver = 4 THEN 32 ELSE 128

Net(ver, addr, plen) == [ver |-> ver, addr |-> addr, plen |-> plen]
Addr(ver, addr) == [ver |-> ver, addr |-> addr]

NumAddresses(n) == Pow2(MaxPrefixLen(n.ver) - n.plen)
NetworkAddress(n) == Addr(n.ver, n.addr)
BroadcastAddress(n) == Addr(n.ver, n.addr + NumAddresses(n) - 1)

\* ipaddress.ip_network(address): the single-address network.
HostNetwork(a) == Net(a.ver, a.addr, MaxPrefixLen(a.ver))

\* network[n]; "IndexError" past the broadcast address.
NetItem(n, i) ==
    IF n.addr + i > BroadcastAddress(n).addr
    THEN [exc |-> "IndexError", val |-> Addr(0, 0)]
    ELSE [exc |-> "none", val |-> Addr(n.ver, n.addr + i)]

\* a.subnet_of(b), for networks of one version.
SubnetOf(a, b) ==
    /\ b.addr <= a.addr
    /\ BroadcastAddress(b).addr >= BroadcastAddress(a).addr

\* a.overlaps(b)
Overlaps(a, b) ==
    /\ a.ver = b.ver
    /\ a.addr <= BroadcastAddress(b).addr
    /\ b.addr <= BroadcastAddress(a).addr

\* network.subnets(): the two halves.
Subnets(n) ==
    << Net(n.ver, n.addr, n.plen + 1),
       Net(n.ver, n.addr + NumAddresses(n) \div 2, n.plen + 1) >>

\* The loop of address_exclude: s strictly contains other.
RECURSIVE ExcludeWalk(_, _)
ExcludeWalk(s, other) ==
    LET s1 == Subnets(s)[1]
        s2 == Subnets(s)[2]
    IN  IF s1 = other THEN <<s2>>
        ELSE IF s2 = other THEN <<s1>>
        ELSE IF SubnetOf(other, s1) THEN <<s2>> \o ExcludeWalk(s1, other)
        ELSE <<s1>> \o ExcludeWalk(s2, other)

\* self.address_exclude(other), consumed whole: the networks it yields, or
\* the exception it raises before yielding anything.
AddressExclude(self, other) ==
    IF self.ver # other.ver THEN [exc |-> "TypeError", nets |-> <<>>]
    ELSE IF ~SubnetOf(other, self) THEN [exc |-> "ValueError", nets |-> <<>>]
    ELSE IF other = self THEN [exc |-> "none", nets |-> <<>>]
    ELSE [exc |-> "none", nets |-> ExcludeWalk(self, other)]

\* Network ordering: by network address, then by netmask.
NetLess(a, b) == a.addr < b.addr \/ (a.addr = b.addr /\ a.plen < b.plen)

RECURSIVE InsertSorted(_, _)
InsertSorted(s, n) ==
    IF s = <<>> THEN <<n>>
    ELSE IF NetLess(n, Head(s)) THEN <<n>> \o s
    ELSE <<Head(s)>> \o InsertSorted(Tail(s), n)

\* A list left in the order the fragments were produced in.
SortNetsSkipped(s) == s

\* list.sort() on a list of networks.
RECURSIVE SortNets(_)
SortNets(s) ==
    IF s = <<>> THEN <<>>
    ELSE InsertSorted(SortNets(SubSeq(s, 1, Len(s) - 1)), s[Len(s)])

-----------------------------------------------------------------------------
(* AddressAssigner                                                         *)

\* The loop of exclude_net over the assignable list, from entry i on.
RECURSIVE StillAssignable(_, _, _)
StillAssignable(list, network, i) ==
    IF i > Len(list) THEN [exc |-> "none", nets |-> <<>>]
    ELSE LET r == AddressExclude(list[i], network)
             rest == StillAssignable(list, network, i + 1)
         IN  IF r.exc = "TypeError" THEN [exc |-> "TypeError", nets |-> <<>>]
             ELSE IF rest.exc # "none" THEN rest
             ELSE IF r.exc = "ValueError"
                  THEN [exc |-> "none", nets |-> <<list[i]>> \o rest.nets]
                  ELSE [exc |-> "none", nets |-> r.nets \o rest.nets]

\* exclude_net(network) on an assignable list: the new list, or the
\* exception that leaves the list as it was.
ExcludeNetOn(list, network) ==
    LET r == StillAssignable(list, network, 1)
    IN  IF r.exc # "none" THEN [exc |-> r.exc, nets |-> list]
        ELSE [exc |-> "none", nets |-> SortNets(r.nets)]

\* exclude_address(address) on an assignable list of a pool of version ver.
ExcludeAddressOn(ver, list, address) ==
    IF address.ver # ver THEN [exc |-> "none", nets |-> list]
    ELSE ExcludeNetOn(list, HostNetwork(address))

\* __init__: the assignable list of a fresh allocator.
Construct(root) ==
    ExcludeAddressOn(root.ver,
        ExcludeAddressOn(root.ver, <<root>>, NetworkAddress(root)).nets,
        BroadcastAddress(root)).nets

\* self._assignable[ni][ai]
Lookup(list, ni, ai) ==
    IF ni + 1 > Len(list) THEN [exc |-> "IndexError", val |-> Addr(0, 0)]
    ELSE NetItem(list[ni + 1], ai)

\* An assign() that starts over at the first entry when the list runs out.
AssignOnWrapping(list, ni, ai) ==
    LET first == Lookup(list, ni, ai)
        second == Lookup(list, ni + 1, 0)
        again == Lookup(list, 0, 0)
    IN  IF first.exc = "none"
        THEN [exc |-> "none", val |-> first.val, ni |-> ni, ai |-> ai + 1]
        ELSE IF second.exc = "none"
        THEN [exc |-> "none", val |-> second.val, ni |-> ni + 1, ai |-> 1]
        ELSE IF again.exc = "none"
        THEN [exc |-> "none", val |-> again.val, ni |-> 0, ai |-> 1]
        ELSE [exc |-> "AssignmentException", val |-> Addr(0, 0),
              ni |-> ni + 1, ai |-> 0]

\* assign(): the outcome and the cursor it leaves.
AssignOn(list, ni, ai) ==
    LET first == Lookup(list, ni, ai)
        second == Lookup(list, ni + 1, 0)
    IN  IF first.exc = "none"
        THEN [exc |-> "none", val |-> first.val, ni |-> ni, ai |-> ai + 1]
        ELSE IF second.exc = "none"
        THEN [exc |-> "none", val |-> second.val, ni |-> ni + 1, ai |-> 1]
        ELSE [exc |-> "AssignmentException", val |-> Addr(0, 0),
              ni |-> ni + 1, ai |-> 0]

-----------------------------------------------------------------------------
(* IPTablesRule: the rule compiler.                                        *)
(*                                                                         *)
(* A rule string "LHS ARROW RHS" is the tuple of its whitespace-separated  *)
(* tokens.  A side token is [sigil, name, lit]: its first character when   *)
(* that is one of * ! @ (else ""), and the rest of it, which is a name or, *)
(* after "!", the text of a literal.  A literal text is [form, ver, addr,  *)
(* plen]: "cidr" for a.b.c.d/p, "address" for a.b.c.d, "text" for          *)
(* anything else.                                                          *)

Lit(form, ver, addr, plen) ==
    [form |-> form, ver |-> ver, addr |-> addr, plen |-> plen]
NoLit == Lit("none", 0, 0, 0)
Sym(sigil, name, lit) == [sigil |-> sigil, name |-> name, lit |-> lit]

\* What a rule side resolves to: None, an address of a host, or a network.
Target(kind, ver, addr, plen) ==
    [kind |-> kind, ver |-> ver, addr |-> addr, plen |-> plen]
None == Target("none", 0, 0, 0)
AddressTarget(a) == Target("address", a.ver, a.addr, MaxPrefixLen(a.ver))
NetworkTarget(n) == Target("network", n.ver, n.addr, n.plen)

ParsedSide(bind_interface, networks) ==
    [bind_interface |-> bind_interface, networks |-> networks]
NoSide == ParsedSide(FALSE, <<>>)

\* ipaddress.ip_network(text), strict: the network, or ValueError for text
\* that is no literal, a prefix length out of range, or host bits set.
IpNetwork(lit) ==
    IF lit.form = "address"
    THEN [exc |-> "none", net |-> Net(lit.ver, lit.addr, MaxPrefixLen(lit.ver))]
    ELSE IF lit.form # "cidr" THEN [exc |-> "ValueError", net |-> Net(0, 0, 0)]
    ELSE IF lit.plen > MaxPrefixLen(lit.ver)
    THEN [exc |-> "ValueError", net |-> Net(0, 0, 0)]
    ELSE IF lit.addr % Pow2(MaxPrefixLen(lit.ver) - lit.plen) # 0
    THEN [exc |-> "ValueError", net |-> Net(0, 0, 0)]
    ELSE [exc |-> "none", net |-> Net(lit.ver, lit.addr, lit.plen)]

\* The host records of a directory with the given name / in the given group.
HostsNamed(directory, name) ==
    SelectSeq(directory, LAMBDA h : h.name = name)
GroupMembers(directory, group) ==
    SelectSeq(directory, LAMBDA h : h.has_group /\ h.group = group)

RECURSIVE ConcatAssigned(_)
ConcatAssigned(members) ==
    IF members = <<>> THEN <<>>
    ELSE Head(members).assigned \o ConcatAssigned(Tail(members))

\* _resolve(symbol)
Resolve(directory, symbol) ==
    IF symbol = Sym("*", "", NoLit)
    THEN [exc |-> "none", side |-> ParsedSide(FALSE, <<None>>)]
    ELSE IF symbol.sigil = "!"
    THEN LET n == IpNetwork(symbol.lit)
         IN  IF n.exc # "none"
             THEN [exc |-> n.exc, side |-> NoSide]
             ELSE [exc |-> "none",
                   side |-> ParsedSide(FALSE, <<NetworkTarget(n.net)>>)]
    ELSE IF symbol.sigil = "@"
    THEN LET members == GroupMembers(directory, symbol.name)
         IN  IF members = <<>>
             THEN [exc |-> "NoSuchGroupException", side |-> NoSide]
             ELSE [exc |-> "none",
                   side |-> ParsedSide(TRUE, ConcatAssigned(members))]
    ELSE LET found == HostsNamed(directory, symbol.name)
         IN  IF found = <<>>
             THEN [exc |-> "NoSuchHostException", side |-> NoSide]
             ELSE [exc |-> "none",
                   side |-> ParsedSide(TRUE, found[Len(found)].assigned)]

Arrows == {"<-", "->", "<->", "<=", "=>", "<=>"}

\* _RULE_SYNTAX.fullmatch(rule_str)
MatchesRuleSyntax(rstr) == Len(rstr) = 3 /\ rstr[2] \in Arrows

\* A normalisation that rewrites the arrow and leaves the sides in place.
NormalizeWithoutSwap(m) ==
    IF m.arrow = "<-" THEN [lhs |-> m.lhs, arrow |-> "->", rhs |-> m.rhs]
    ELSE IF m.arrow = "<=" THEN [lhs |-> m.lhs, arrow |-> "=>", rhs |-> m.rhs]
    ELSE m

\* The swap of _parse_rule: "<-" and "<=" become "->" and "=>".
Normalize(m) ==
    IF m.arrow = "<-" THEN [lhs |-> m.rhs, arrow |-> "->", rhs |-> m.lhs]
    ELSE IF m.arrow = "<=" THEN [lhs |-> m.rhs, arrow |-> "=>", rhs |-> m.lhs]
    ELSE m

NoArrow == "None"

\* IPTablesRule(wggen, rule_str): the fields _parse_rule leaves and the
\* exception it ends with.
ParseRuleOn(directory, rstr) ==
    IF ~MatchesRuleSyntax(rstr)
    THEN [exc |-> "RuleParseException", lhs |-> NoSide, arrow |-> NoArrow,
          rhs |-> NoSide]
    ELSE LET m == Normalize([lhs |-> rstr[1], arrow |-> rstr[2],
                             rhs |-> rstr[3]])
             l == Resolve(directory, m.lhs)
             r == Resolve(directory, m.rhs)
         IN  IF l.exc # "none"
             THEN [exc |-> l.exc, lhs |-> NoSide, arrow |-> NoArrow,
                   rhs |-> NoSide]
             ELSE IF r.exc # "none"
             THEN [exc |-> r.exc, lhs |-> l.side, arrow |-> m.arrow,
                   rhs |-> NoSide]
             ELSE [exc |-> "none", lhs |-> l.side, arrow |-> m.arrow,
                   rhs |-> r.side]

\* A bidirectional test that also takes "=>" for a two-way arrow.
BidirectionalAlsoFat(arw) == arw \in {"<->", "<=>", "=>"}

\* the bidirectional property
Bidirectional(arw) == arw \in {"<->", "<=>"}

\* the only_wg_interface property
OnlyWgInterface(arw) == arw \in {"<->", "->", "<-"}

NoIfname == "None"

\* _iptables_rule: the command, by its options.
IptablesRule(rstr, src, dst, is_ipv4, in_ifname, out_ifname, established) ==
    [prog |-> IF is_ipv4 THEN "iptables" ELSE "ip6tables",
     only_established |-> established,
     in_ifname |-> in_ifname,
     out_ifname |-> out_ifname,
     src |-> src,
     dst |-> dst,
     comment |-> [prefix |-> IF established THEN "only established: "
                                            ELSE "",
                  rule |-> rstr]]

\* The predicate of _iterate_commands for one version.
KeptFor(ver, networks) ==
    SelectSeq(networks, LAMBDA t : t = None \/ t.ver = ver)

\* The two commands _iterate_ipversion_commands yields for one pair.
PairCommands(rule, rstr, ifname, is_ipv4, l, r) ==
    LET in_ifname == IF OnlyWgInterface(rule.arrow) THEN ifname
                     ELSE IF rule.lhs.bind_interface THEN ifname ELSE NoIfname
        out_ifname == IF OnlyWgInterface(rule.arrow) THEN ifname
                      ELSE IF rule.rhs.bind_interface THEN ifname ELSE NoIfname
    IN  << IptablesRule(rstr, l, r, is_ipv4, in_ifname, out_ifname, FALSE),
           IptablesRule(rstr, r, l, is_ipv4, out_ifname, in_ifname,
                        ~Bidirectional(rule.arrow)) >>

\* itertools.product(all_lhs, all_rhs) from pair (i, j) on, left list outer.
RECURSIVE ProductCommands(_, _, _, _, _, _, _, _)
ProductCommands(rule, rstr, ifname, is_ipv4, all_lhs, all_rhs, i, j) ==
    IF i > Len(all_lhs) \/ all_rhs = <<>> THEN <<>>
    ELSE IF j > Len(all_rhs)
    THEN ProductCommands(rule, rstr, ifname, is_ipv4, all_lhs, all_rhs,
                         i + 1, 1)
    ELSE PairCommands(rule, rstr, ifname, is_ipv4, all_lhs[i], all_rhs[j])
            \o ProductCommands(rule, rstr, ifname, is_ipv4, all_lhs,
                               all_rhs, i, j + 1)

\* _iterate_ipversion_commands
IterateIpversionCommands(rule, rstr, ifname, is_ipv4) ==
    LET ver == IF is_ipv4 THEN 4 ELSE 6
    IN  ProductCommands(rule, rstr, ifname, is_ipv4,
                        KeptFor(ver, rule.lhs.networks),
                        KeptFor(ver, rule.rhs.networks), 1, 1)

\* An iteration that takes version 6 before version 4.
IterateCommandsSixFirst(rule, rstr, ifname) ==
    IterateIpversionCommands(rule, rstr, ifname, FALSE)
        \o IterateIpversionCommands(rule, rstr, ifname, TRUE)

\* _iterate_commands
IterateCommands(rule, rstr, ifname) ==
    IterateIpversionCommands(rule, rstr, ifname, TRUE)
        \o IterateIpversionCommands(rule, rstr, ifname, FALSE)

\* The lines a file receives.
TextLine(text) == [kind |-> "text", text |-> text, rule |-> <<>>, cmd |-> <<>>]
HeaderLine(rstr) ==
    [kind |-> "header", text |-> "# ", rule |-> rstr, cmd |-> <<>>]
CommandLine(cmd) ==
    [kind |-> "command", text |-> "", rule |-> <<>>, cmd |-> <<cmd>>]

RECURSIVE CommandLines(_)
CommandLines(cmds) ==
    IF cmds = <<>> THEN <<>>
    ELSE <<CommandLine(Head(cmds))>> \o CommandLines(Tail(cmds))

\* IPTablesRule.generate(f): the lines it prints.
GenerateLines(rule, rstr, ifname) ==
    <<HeaderLine(rstr)>>
        \o CommandLines(IterateCommands(rule, rstr, ifname))
        \o <<TextLine("")>>

\* concentrator.get("ifname", "wg0")
Ifname(c) == IF c.has_ifname THEN c.ifname ELSE "wg0"

-----------------------------------------------------------------------------
(* The allocator as a state machine: a caller constructs one allocator and *)
(* then calls exclude_net, exclude_address and assign in any order.        *)

\* Every network of version ver inside the block of 2^bits addresses.
Networks(ver, bits) ==
    UNION { { Net(ver, a, MaxPrefixLen(ver) - h) :
                a \in { x \in 0..(Pow2(bits) - 1) : x % Pow2(h) = 0 } } :
            h \in 0..bits }

Addresses(ver, bits) == { Addr(ver, a) : a \in 0..(Pow2(bits) - 1) }

\* The pools a caller may declare.
Roots ==
    { n \in Networks(4, HostBits) : n.addr = 0 }
        \cup { Net(4, Pow2(HostBits) - 4, 30), Net(6, 0, 126) }

\* The arguments a caller may pass to the exclusion calls.
ExclusionNets == Networks(4, HostBits) \cup Networks(6, 1)
ExclusionAddresses == Addresses(4, HostBits) \cup Addresses(6, 1)

NoNet == Net(0, 0, 0)
NoAddr == Addr(0, 0)

Snapshot == [assignable |-> assignable, net_index |-> net_index,
             addr_index |-> addr_index]

NumExclusions == Len(excluded)
NumAssigns == Len(results)

AllocInit ==
    /\ root_network \in Roots
    /\ assignable = Construct(root_network)
    /\ net_index = 0
    /\ addr_index = 0
    /\ call = [op |-> "init", arg |-> NoNet, exc |-> "none",
               before |-> [assignable |-> <<>>, net_index |-> 0,
                           addr_index |-> 0]]
    /\ results = <<>>
    /\ excluded = <<>>
    /\ excludedAfterAssign = FALSE

\* assigner.exclude_net(network)
ExcludeNet(network) ==
    /\ NumExclusions < MaxExclude
    /\ LET r == ExcludeNetOn(assignable, network)
       IN  /\ assignable' = r.nets
           /\ call' = [op |-> "exclude_net", arg |-> network, exc |-> r.exc,
                       before |-> Snapshot]
    /\ excluded' = Append(excluded, network)
    /\ excludedAfterAssign' = (excludedAfterAssign \/ NumAssigns > 0)
    /\ UNCHANGED <<root_network, net_index, addr_index, results, ruleVars, genVars>>

\* assigner.exclude_address(address)
ExcludeAddress(address) ==
    /\ NumExclusions < MaxExclude
    /\ LET r == ExcludeAddressOn(root_network.ver, assignable, address)
       IN  /\ assignable' = r.nets
           /\ call' = [op |-> "exclude_address", arg |-> HostNetwork(address),
                       exc |-> r.exc, before |-> Snapshot]
    /\ excluded' = Append(excluded, HostNetwork(address))
    /\ excludedAfterAssign' = (excludedAfterAssign \/ NumAssigns > 0)
    /\ UNCHANGED <<root_network, net_index, addr_index, results, ruleVars, genVars>>

\* assigner.assign()
Assign ==
    /\ NumAssigns < MaxAssign
    /\ LET r == AssignOn(assignable, net_index, addr_index)
       IN  /\ net_index' = r.ni
           /\ addr_index' = r.ai
           /\ results' = Append(results, [exc |-> r.exc, val |-> r.val])
           /\ call' = [op |-> "assign", arg |-> NoNet, exc |-> r.exc,
                       before |-> Snapshot]
    /\ UNCHANGED <<root_network, assignable, excluded, excludedAfterAssign,
                   ruleVars, genVars>>

Next ==
    \/ \E network \in ExclusionNets : ExcludeNet(network)
    \/ \E address \in ExclusionAddresses : ExcludeAddress(address)
    \/ Assign

\* No constructor at work.
GenIdle ==
    /\ topology = <<>>
    /\ host_address = <<>>
    /\ routed = <<>>
    /\ _networks = <<>>
    /\ fixed_address = <<>>
    /\ host_index = 0

\* No generator beside the allocator.
RuleIdle ==
    /\ GenIdle
    /\ hosts = <<>>
    /\ route = <<>>
    /\ rule_str = <<>>
    /\ lhs = NoSide
    /\ arrow = NoArrow
    /\ rhs = NoSide
    /\ file = <<>>
    /\ error = "none"
    /\ pc = "allocator"
    /\ rule_index = 0
    /\ args = [create_tar_gz |-> FALSE, create_group_tar_gz |-> FALSE]
    /\ artifacts = {}

Init == AllocInit /\ RuleIdle

Spec == Init /\ [][Next]_vars

\* The allocator as the generator uses it: every exclusion (the pool's
\* declared exclude list, the fixed addresses) is made before the first
\* assign().
ExcludeNetFirst(network) ==
    /\ results = <<>>
    /\ NumExclusions < MaxExcludeFirst
    /\ ExcludeNet(network)

ExcludeAddressFirst(address) ==
    /\ results = <<>>
    /\ NumExclusions < MaxExcludeFirst
    /\ ExcludeAddress(address)

NextExcludeFirst ==
    \/ \E network \in ExclusionNets : ExcludeNetFirst(network)
    \/ \E address \in ExclusionAddresses : ExcludeAddressFirst(address)
    \/ Assign

SpecExcludeFirst == Init /\ [][NextExcludeFirst]_vars

-----------------------------------------------------------------------------
(* WireguardGenerator.run() as a state machine: the keys, the configuration *)
(* files, the iptables file rule by rule, the archives.                     *)

\* No allocator beside the generator.
AllocIdle ==
    /\ root_network = NoNet
    /\ assignable = <<>>
    /\ net_index = 0
    /\ addr_index = 0
    /\ call = [op |-> "init", arg |-> NoNet, exc |-> "none",
               before |-> [assignable |-> <<>>, net_index |-> 0,
                           addr_index |-> 0]]
    /\ results = <<>>
    /\ excluded = <<>>
    /\ excludedAfterAssign = FALSE

\* The families of the networks a topology declares, in declaration order.
Topologies == { <<4>>, <<4, 6>>, <<6>> }

ClientNames == <<"host1", "host2", "host3", "host4">>
NoGroup == "None"
GroupChoices == { NoGroup, "lab" }
IfnameChoices == { NoIfname, "wg1" }

\* host["assigned"] of the k-th host: the k-th address of every network.
AssignedOf(k, families) ==
    [i \in 1..Len(families) |-> AddressTarget(Addr(families[i], k))]

Host(name, group, assigned, ifname) ==
    [name |-> name, has_group |-> group # NoGroup, group |-> group,
     assigned |-> assigned, has_ifname |-> ifname # NoIfname,
     ifname |-> ifname]

\* The hosts of a configuration after construction, the concentrator first.
Directories ==
    UNION { { [k \in 1..(n + 1) |->
                 IF k = 1
                 THEN Host("hub", NoGroup, AssignedOf(1, families), ifname)
                 ELSE Host(ClientNames[k - 1], g[k - 1],
                           AssignedOf(k, families), NoIfname)] :
              g \in [1..n -> GroupChoices],
              families \in Topologies,
              ifname \in IfnameChoices } :
            n \in 1..MaxClients }

\* The texts a rule may carry after "!".
Literals ==
    { Lit("cidr", 4, 8, 30), Lit("cidr", 4, 9, 30), Lit("cidr", 4, 0, 33),
      Lit("cidr", 6, 0, 127), Lit("address", 4, 2, 0), Lit("text", 0, 0, 0) }

Star == Sym("*", "", NoLit)

\* The side tokens of a rule.
Symbols ==
    {Star}
        \cup { Sym("!", "", lit) : lit \in Literals }
        \cup { Sym("@", group, NoLit) : group \in {"lab", "ops"} }
        \cup { Sym("", name, NoLit) :
                 name \in {"hub", "ghost"}
                            \cup { ClientNames[k] : k \in 1..MaxClients } }

\* The rule strings of a configuration, some of them outside the syntax.
RuleStrings ==
    { <<l, a, r>> : l \in Symbols, a \in Arrows \cup {"--"}, r \in Symbols }
        \cup { <<Star, "->">> }

\* generate_keys() and generate() have been called for every host.
KeysOf(directory) ==
    { [kind |-> "keys", name |-> directory[k].name] :
        k \in 1..Len(directory) }
ConfigsOf(directory) ==
    { [kind |-> "config", name |-> directory[k].name] :
        k \in 1..Len(directory) }
IptablesFile(directory) == [kind |-> "iptables", name |-> directory[1].name]

\* The first group of self._groups: that of the first host that has one.
FirstGroup(directory) ==
    LET grouped == SelectSeq(directory, LAMBDA h : h.has_group)
    IN  IF grouped = <<>> THEN {} ELSE { Head(grouped).group }

\* create_all_host_archives() and create_group_archives()
HostArchives(directory) ==
    { [kind |-> "archive", name |-> directory[k].name] :
        k \in 1..Len(directory) }
GroupArchives(directory) ==
    { [kind |-> "archive", name |-> g] : g \in FirstGroup(directory) }

\* run(): generator.generate_keys() for every host
GenerateKeys ==
    /\ pc = "start"
    /\ artifacts' = artifacts \cup KeysOf(hosts)
    /\ pc' = "keys"
    /\ UNCHANGED <<genVars, allocVars, hosts, route, rule_str, lhs, arrow, rhs, file,
                   error, rule_index, args>>

\* run(): generator.generate() for every host
GenerateConfigs ==
    /\ pc = "keys"
    /\ artifacts' = artifacts \cup ConfigsOf(hosts)
    /\ pc' = "configs"
    /\ UNCHANGED <<genVars, allocVars, hosts, route, rule_str, lhs, arrow, rhs, file,
                   error, rule_index, args>>

\* IPTablesRulesGenerator.generate: open(filename, "w") and the first print
OpenIptables ==
    /\ pc = "configs"
    /\ artifacts' = artifacts \cup { IptablesFile(hosts) }
    /\ file' = <<TextLine("#!/bin/bash")>>
    /\ rule_index' = 0
    /\ pc' = "rules"
    /\ UNCHANGED <<genVars, allocVars, hosts, route, rule_str, lhs, arrow, rhs, error,
                   args>>

\* IPTablesRule(self._wggen, rule) for the next rule of the list
ParseRule ==
    /\ pc = "rules"
    /\ rule_index < Len(route)
    /\ LET p == ParseRuleOn(hosts, route[rule_index + 1])
       IN  /\ rule_str' = route[rule_index + 1]
           /\ lhs' = p.lhs
           /\ arrow' = p.arrow
           /\ rhs' = p.rhs
           /\ error' = p.exc
           /\ pc' = IF p.exc = "none" THEN "parsed" ELSE "failed"
    /\ UNCHANGED <<genVars, allocVars, hosts, route, file, rule_index, args,
                   artifacts>>

\* parsed_rule.generate(f)
Generate ==
    /\ pc = "parsed"
    /\ file' = file \o GenerateLines([lhs |-> lhs, arrow |-> arrow,
                                      rhs |-> rhs], rule_str,
                                     Ifname(hosts[1]))
    /\ rule_index' = rule_index + 1
    /\ pc' = "rules"
    /\ UNCHANGED <<genVars, allocVars, hosts, route, rule_str, lhs, arrow, rhs, error,
                   args, artifacts>>

\* IPTablesRulesGenerator.generate: the rule list is through, f is closed
CloseIptables ==
    /\ pc = "rules"
    /\ rule_index = Len(route)
    /\ pc' = "packing"
    /\ UNCHANGED <<genVars, allocVars, hosts, route, rule_str, lhs, arrow, rhs, file,
                   error, rule_index, args, artifacts>>

\* run(): the archives the arguments ask for
Pack ==
    /\ pc = "packing"
    /\ artifacts' = artifacts
           \cup (IF args.create_tar_gz THEN HostArchives(hosts) ELSE {})
           \cup (IF args.create_group_tar_gz THEN GroupArchives(hosts)
                                             ELSE {})
    /\ pc' = "done"
    /\ UNCHANGED <<genVars, allocVars, hosts, route, rule_str, lhs, arrow, rhs, file,
                   error, rule_index, args>>

\* The rule lists of the run: a rule that compiles, one that names an
\* undeclared host, one with a literal, one outside the syntax.
RunRules ==
    { <<Sym("", "host1", NoLit), "->", Sym("", "hub", NoLit)>>,
      <<Sym("", "ghost", NoLit), "->", Sym("", "host1", NoLit)>>,
      <<Sym("@", "lab", NoLit), "<=>", Sym("!", "", Lit("cidr", 4, 8, 30))>>,
      <<Star, "--", Star>> }

Routes == UNION { [1..n -> RunRules] : n \in 0..MaxRules }

NoRule == <<>>

RunInit ==
    /\ AllocIdle
    /\ GenIdle
    /\ hosts \in Directories
    /\ route \in Routes
    /\ args \in [create_tar_gz : BOOLEAN, create_group_tar_gz : BOOLEAN]
    /\ rule_str = NoRule
    /\ lhs = NoSide
    /\ arrow = NoArrow
    /\ rhs = NoSide
    /\ file = <<>>
    /\ error = "none"
    /\ pc = "start"
    /\ rule_index = 0
    /\ artifacts = {}

NextRun ==
    \/ GenerateKeys
    \/ GenerateConfigs
    \/ OpenIptables
    \/ ParseRule
    \/ Generate
    \/ CloseIptables
    \/ Pack

SpecRun == RunInit /\ [][NextRun]_vars

\* One rule: the run has opened the iptables file and the rule list holds
\* a single rule.
RuleInit ==
    /\ AllocIdle
    /\ GenIdle
    /\ hosts \in Directories
    /\ route \in { <<r>> : r \in RuleStrings }
    /\ args = [create_tar_gz |-> FALSE, create_group_tar_gz |-> FALSE]
    /\ rule_str = NoRule
    /\ lhs = NoSide
    /\ arrow = NoArrow
    /\ rhs = NoSide
    /\ file = <<TextLine("#!/bin/bash")>>
    /\ error = "none"
    /\ pc = "rules"
    /\ rule_index = 0
    /\ artifacts = KeysOf(hosts) \cup ConfigsOf(hosts)
                       \cup { IptablesFile(hosts) }

NextRule ==
    \/ ParseRule
    \/ Generate

SpecRule == RuleInit /\ [][NextRule]_vars

-----------------------------------------------------------------------------
(* WireguardGenerator.__init__ as a state machine: the allocators of the   *)
(* topology, the checks, the fixed addresses, the addresses of every host. *)
(* The "server" and "port" fields it sets on the hosts are left out.       *)

Assigner(root, list, ni, ai) ==
    [root_network |-> root, assignable |-> list, net_index |-> ni,
     addr_index |-> ai]

\* The loop of parse over definition["exclude"], every entry a network.
RECURSIVE ParseExcludes(_, _)
ParseExcludes(list, nets) ==
    IF nets = <<>> THEN [exc |-> "none", nets |-> list]
    ELSE LET r == ExcludeNetOn(list, Head(nets))
         IN  IF r.exc # "none" THEN r
             ELSE ParseExcludes(r.nets, Tail(nets))

\* AddressAssigner.parse(definition)
Parse(definition) ==
    LET r == ParseExcludes(Construct(definition.network), definition.exclude)
    IN  [exc |-> r.exc,
         assigner |-> Assigner(definition.network, r.nets, 0, 0)]

\* The list comprehension of __init__ over the network definitions.
RECURSIVE ParseAll(_)
ParseAll(definitions) ==
    IF definitions = <<>> THEN [exc |-> "none", assigners |-> <<>>]
    ELSE LET first == Parse(Head(definitions))
             rest == ParseAll(Tail(definitions))
         IN  IF first.exc # "none"
             THEN [exc |-> first.exc, assigners |-> <<>>]
             ELSE IF rest.exc # "none" THEN rest
             ELSE [exc |-> "none",
                   assigners |-> <<first.assigner>> \o rest.assigners]

\* _check_no_duplicate_name: the set seen_names is created and tested, and
\* no name is ever added to it.
CheckNoDuplicateNameOn(directory) ==
    LET seen_names == {}
    IN  IF \E k \in 1..Len(directory) : directory[k].name \in seen_names
        THEN "DuplicateNameException"
        ELSE "none"

\* _check_networks_have_no_overlap
CheckNetworksHaveNoOverlapOn(assigners, routed_nets) ==
    LET checked_networks ==
            [i \in 1..Len(assigners) |-> assigners[i].root_network]
                \o routed_nets
    IN  IF \E i, j \in 1..Len(checked_networks) :
               i < j /\ Overlaps(checked_networks[i], checked_networks[j])
        THEN "NetworkOverlapException"
        ELSE "none"

RECURSIVE Flatten(_)
Flatten(lists) ==
    IF lists = <<>> THEN <<>> ELSE Head(lists) \o Flatten(Tail(lists))

\* A reservation that leaves every allocator as it was.
ReserveSkipped(assigners, addrs) == assigners

\* _reserve_fixed_address for every address of the list in turn:
\* exclude_address on every allocator.
RECURSIVE ReserveOn(_, _)
ReserveOn(assigners, addrs) ==
    IF addrs = <<>> THEN assigners
    ELSE ReserveOn(
             [i \in 1..Len(assigners) |->
                 [assigners[i] EXCEPT !.assignable =
                     ExcludeAddressOn(assigners[i].root_network.ver, @,
                                      Head(addrs)).nets]],
             Tail(addrs))

\* _check_duplicate_fixed_addresses
CheckDuplicateFixedAddressesOn(fixed) ==
    LET all == Flatten(fixed)
    IN  IF \E i, j \in 1..Len(all) : i < j /\ all[i] = all[j]
        THEN "InvalidFixedAddressException"
        ELSE "none"

\* address in net.root_network
InNetwork(a, n) ==
    a.ver = n.ver /\ n.addr <= a.addr /\ a.addr <= BroadcastAddress(n).addr

\* _get_network_index, counted from 1; 0 for None.
GetNetworkIndex(assigners, a) ==
    LET hits == { i \in 1..Len(assigners) :
                    InNetwork(a, assigners[i].root_network) }
    IN  IF hits = {} THEN 0
        ELSE CHOOSE i \in hits : \A j \in hits : i <= j

\* The first loop of _assign_host_address: the fixed addresses take their
\* slots.
RECURSIVE PlaceFixed(_, _, _)
PlaceFixed(assigners, assigned, addrs) ==
    IF addrs = <<>> THEN [exc |-> "none", assigned |-> assigned]
    ELSE LET index == GetNetworkIndex(assigners, Head(addrs))
         IN  IF index = 0
             THEN [exc |-> "InvalidFixedAddressException",
                   assigned |-> assigned]
             ELSE IF assigned[index] # None
             THEN [exc |-> "InvalidFixedAddressException",
                   assigned |-> assigned]
             ELSE PlaceFixed(assigners,
                             [assigned EXCEPT ![index] =
                                 AddressTarget(Head(addrs))],
                             Tail(addrs))

\* The second loop of _assign_host_address, from slot index on: assign()
\* for every slot that is still None.
RECURSIVE FillFrom(_, _, _)
FillFrom(assigners, assigned, index) ==
    IF index > Len(assigned)
    THEN [exc |-> "none", assigners |-> assigners, assigned |-> assigned]
    ELSE IF assigned[index] # None
    THEN FillFrom(assigners, assigned, index + 1)
    ELSE LET n == assigners[index]
             r == AssignOn(n.assignable, n.net_index, n.addr_index)
             moved == [assigners EXCEPT ![index] =
                          Assigner(n.root_network, n.assignable, r.ni, r.ai)]
         IN  IF r.exc # "none"
             THEN [exc |-> r.exc, assigners |-> moved,
                   assigned |-> assigned]
             ELSE FillFrom(moved,
                           [assigned EXCEPT ![index] = AddressTarget(r.val)],
                           index + 1)

\* _assign_host_address(host)
AssignHostAddressOn(assigners, fixed) ==
    LET placed == PlaceFixed(assigners,
                             [i \in 1..Len(assigners) |-> None], fixed)
    IN  IF placed.exc # "none"
        THEN [exc |-> placed.exc, assigners |-> assigners,
              assigned |-> placed.assigned]
        ELSE FillFrom(assigners, placed.assigned, 1)

NetworkDefinition(network, exclude) ==
    [network |-> network, exclude |-> exclude]

\* The "networks" lists of a topology: one pool, a pool with an exclusion,
\* a pool of two addresses, two pools, pools of both families, two pools
\* that overlap, a pool with an exclusion of the other family.
NetworkDefinitions ==
    { <<NetworkDefinition(Net(4, 0, 29), <<>>)>>,
      <<NetworkDefinition(Net(4, 0, 29), <<Net(4, 4, 30)>>)>>,
      <<NetworkDefinition(Net(4, 0, 30), <<>>)>>,
      <<NetworkDefinition(Net(4, 0, 29), <<>>),
        NetworkDefinition(Net(4, 8, 29), <<>>)>>,
      <<NetworkDefinition(Net(4, 0, 29), <<>>),
        NetworkDefinition(Net(6, 0, 126), <<>>)>>,
      <<NetworkDefinition(Net(4, 0, 28), <<>>),
        NetworkDefinition(Net(4, 8, 29), <<>>)>>,
      <<NetworkDefinition(Net(4, 0, 29), <<Net(6, 0, 127)>>)>> }

\* The "routed" lists of a topology.
RoutedChoices == { <<>>, <<Net(4, 8, 29)>> }

\* host["address"]: none, one, two of one pool, one outside the first pool,
\* one of each family.
FixedLists ==
    { <<>>, <<Addr(4, 2)>>, <<Addr(4, 2), Addr(4, 3)>>, <<Addr(4, 9)>>,
      <<Addr(4, 1), Addr(6, 1)>> }

\* The names a configuration gives the k-th client: its own, or that of
\* the concentrator.
NameChoices(k) == { ClientNames[k], "hub" }

HostNames == {"hub"} \cup { ClientNames[k] : k \in 1..MaxClients }

\* The hosts of a configuration before any address is assigned.
ConfigHosts ==
    UNION { { [k \in 1..(n + 1) |->
                 Host(IF k = 1 THEN "hub" ELSE name[k - 1], NoGroup, <<>>,
                      NoIfname)] :
              name \in { f \in [1..n -> HostNames] :
                           \A k \in 1..n : f[k] \in NameChoices(k) } } :
            n \in 1..MaxClients }

\* Every step of __init__ leaves the rest of the state alone.
ConstructorFrame ==
    UNCHANGED <<allocVars, route, rule_str, lhs, arrow, rhs, file,
                rule_index, args, artifacts, topology, host_address, routed>>

\* __init__: the exception a step raised ends the construction.
Raise(exc, next) ==
    /\ error' = exc
    /\ pc' = IF exc = "none" THEN next ELSE "failed"

\* __init__: self._networks
ParseNetworks ==
    /\ pc = "config"
    /\ LET r == ParseAll(topology)
       IN  /\ _networks' = r.assigners
           /\ Raise(r.exc, "names")
    /\ UNCHANGED <<hosts, fixed_address, host_index>>
    /\ ConstructorFrame

\* __init__: self._check_no_duplicate_name()
CheckNoDuplicateName ==
    /\ pc = "names"
    /\ Raise(CheckNoDuplicateNameOn(hosts), "overlap")
    /\ UNCHANGED <<hosts, _networks, fixed_address, host_index>>
    /\ ConstructorFrame

\* __init__: self._check_networks_have_no_overlap()
CheckNetworksHaveNoOverlap ==
    /\ pc = "overlap"
    /\ Raise(CheckNetworksHaveNoOverlapOn(_networks, routed), "reserve")
    /\ UNCHANGED <<hosts, _networks, fixed_address, host_index>>
    /\ ConstructorFrame

\* __init__: self._reserve_fixed_addresses()
ReserveFixedAddresses ==
    /\ pc = "reserve"
    /\ _networks' = ReserveOn(_networks, Flatten(host_address))
    /\ fixed_address' = host_address
    /\ Raise("none", "fixed")
    /\ UNCHANGED <<hosts, host_index>>
    /\ ConstructorFrame

\* __init__: self._check_duplicate_fixed_addresses()
CheckDuplicateFixedAddresses ==
    /\ pc = "fixed"
    /\ Raise(CheckDuplicateFixedAddressesOn(fixed_address), "assign")
    /\ UNCHANGED <<hosts, _networks, fixed_address, host_index>>
    /\ ConstructorFrame

\* _assign_addresses: self._assign_host_address(host) for the next host
AssignHostAddress ==
    /\ pc = "assign"
    /\ host_index < Len(hosts)
    /\ LET k == host_index + 1
           r == AssignHostAddressOn(_networks, fixed_address[k])
       IN  /\ _networks' = r.assigners
           /\ hosts' = IF r.exc = "none"
                       THEN [hosts EXCEPT ![k].assigned = r.assigned]
                       ELSE hosts
           /\ host_index' = IF r.exc = "none" THEN k ELSE host_index
           /\ Raise(r.exc, "assign")
    /\ UNCHANGED fixed_address
    /\ ConstructorFrame

\* __init__: every host has its addresses; _hosts_by_name and _groups
FinishConstruction ==
    /\ pc = "assign"
    /\ host_index = Len(hosts)
    /\ Raise("none", "constructed")
    /\ UNCHANGED <<hosts, _networks, fixed_address, host_index>>
    /\ ConstructorFrame

ConstructInit ==
    /\ AllocIdle
    /\ topology \in NetworkDefinitions
    /\ routed \in RoutedChoices
    /\ hosts \in ConfigHosts
    /\ host_address \in [1..Len(hosts) -> FixedLists]
    /\ _networks = <<>>
    /\ fixed_address = <<>>
    /\ host_index = 0
    /\ route = <<>>
    /\ rule_str = NoRule
    /\ lhs = NoSide
    /\ arrow = NoArrow
    /\ rhs = NoSide
    /\ file = <<>>
    /\ error = "none"
    /\ pc = "config"
    /\ rule_index = 0
    /\ args = [create_tar_gz |-> FALSE, create_group_tar_gz |-> FALSE]
    /\ artifacts = {}

NextConstruct ==
    \/ ParseNetworks
    \/ CheckNoDuplicateName
    \/ CheckNetworksHaveNoOverlap
    \/ ReserveFixedAddresses
    \/ CheckDuplicateFixedAddresses
    \/ AssignHostAddress
    \/ FinishConstruction

SpecConstruct == ConstructInit /\ [][NextConstruct]_vars

-----------------------------------------------------------------------------
(* Claims about the allocator.                                             *)

\* The address offsets a network covers, and those an assignable list holds.
Covered(n) == n.addr .. BroadcastAddress(n).addr
PoolAddrs(list) == UNION { Covered(list[i]) : i \in 1..Len(list) }

Entries(list) == { list[i] : i \in 1..Len(list) }

InRootFamily(n) == n.ver = root_network.ver

IsExclusion == call.op \in {"exclude_net", "exclude_address"}

\* C1: after exclude_net(X) with X of the root's family no assignable entry
\* overlaps X: what is left is exactly what was there minus X, entries
\* disjoint from X are kept as they were, and entries inside X are gone.
C1_ExcludeNetLeavesNoOverlap ==
    (call.op = "exclude_net" /\ InRootFamily(call.arg)) =>
        /\ \A e \in Entries(assignable) : ~Overlaps(e, call.arg)
        /\ PoolAddrs(assignable)
               = PoolAddrs(call.before.assignable) \ Covered(call.arg)
        /\ \A e \in Entries(call.before.assignable) :
               ~Overlaps(e, call.arg) => e \in Entries(assignable)

\* The exclusions of the root's family made so far, in call order.
FamilyExclusions == SelectSeq(excluded, InRootFamily)

Orderings(n) ==
    { f \in [1..n -> 1..n] : \A i, j \in 1..n : f[i] = f[j] => i = j }

RECURSIVE ExcludeAll(_, _)
ExcludeAll(list, nets) ==
    IF nets = <<>> THEN list
    ELSE ExcludeAll(ExcludeNetOn(list, Head(nets)).nets, Tail(nets))

\* C2: the assignable list is the one a fresh allocator reaches by applying
\* the same exclusions in any other order.
C2_ExclusionOrderIndependent ==
    LET x == FamilyExclusions
    IN  \A f \in Orderings(Len(x)) :
            ExcludeAll(Construct(root_network), [i \in 1..Len(x) |-> x[f[i]]])
                = assignable

\* C3: an address returned by assign() lies in the root network, was not
\* returned by an earlier assign(), and is covered by no exclusion made
\* before the call, the root's network and broadcast address included.
C3_NoCollision ==
    (call.op = "assign" /\ call.exc = "none") =>
        LET n == Len(results)
            a == results[n].val
        IN  /\ a.ver = root_network.ver
            /\ a.addr \in Covered(root_network)
            /\ \A i \in 1..(n - 1) :
                   results[i].exc = "none" => results[i].val # a
            /\ \A i \in 1..Len(excluded) :
                   ~(excluded[i].ver = a.ver /\ a.addr \in Covered(excluded[i]))
            /\ a # NetworkAddress(root_network)
            /\ a # BroadcastAddress(root_network)

\* The number of addresses the assignable list holds.
PoolSize == Cardinality(PoolAddrs(assignable))

\* C4: with every exclusion made before the first assign(), the first
\* PoolSize calls each return an address and every later call raises
\* AssignmentException; a fresh IPv4 /30 pool holds two addresses.
C4_ExhaustionExactAndTerminal ==
    /\ ~excludedAfterAssign =>
           \A i \in 1..Len(results) :
               /\ i <= PoolSize => results[i].exc = "none"
               /\ i > PoolSize => results[i].exc = "AssignmentException"
    /\ (root_network.ver = 4 /\ root_network.plen = 30 /\ excluded = <<>>)
           => PoolSize = 2

\* An allocator that was excluded from, ran dry after more than one
\* address, and was asked twice more.
C4_Witness ==
    /\ ~excludedAfterAssign
    /\ assignable # Construct(root_network)
    /\ PoolSize >= 2
    /\ Len(results) >= PoolSize + 2
    /\ results[PoolSize].exc = "none"
    /\ results[PoolSize + 2].exc = "AssignmentException"

IsReturned(r) == r.exc = "none"
Returned == SelectSeq(results, IsReturned)

NthSmallest(S, i) == CHOOSE x \in S : Cardinality({ y \in S : y < x }) = i - 1

C8_WrongFamilyExclusionIsNoOp ==
    (IsExclusion /\ ~InRootFamily(call.arg)) =>
        /\ call.exc = "none"
        /\ assignable = call.before.assignable
        /\ net_index = call.before.net_index
        /\ addr_index = call.before.addr_index

-----------------------------------------------------------------------------
(* Claims about the rule compiler and the run.                             *)

\* The commands among the lines of a file, in the order printed.
RECURSIVE CmdsOf(_)
CmdsOf(lines) ==
    IF lines = <<>> THEN <<>> ELSE Head(lines).cmd \o CmdsOf(Tail(lines))

Emitted == CmdsOf(file)

\* The single rule of the list has been compiled into the file.
Compiled == pc = "rules" /\ Len(route) = 1 /\ rule_index = 1

OneWay == arrow \notin {"<->", "<=>"}

\* Two targets that one IP version keeps both.
Expanded(l, r) ==
    \E ver \in {4, 6} : (l = None \/ l.ver = ver) /\ (r = None \/ r.ver = ver)

\* The commands come in pairs: a forward command for a pair (l, r) of the
\* two sides, never established-only, then the reverse command for (r, l),
\* established-only exactly when the arrow is none of <-> and <=>; every
\* expanded pair has its forward command; a bidirectional rule has no
\* established-only command.
ForwardThenReverse ==
    LET c == Emitted
    IN  /\ Len(c) % 2 = 0
        /\ \A i \in 1..Len(c) : i % 2 = 1 =>
               /\ ~c[i].only_established
               /\ c[i].src \in Entries(lhs.networks)
               /\ c[i].dst \in Entries(rhs.networks)
               /\ c[i + 1].src = c[i].dst
               /\ c[i + 1].dst = c[i].src
               /\ c[i + 1].prog = c[i].prog
               /\ c[i + 1].only_established = OneWay
        /\ \A l \in Entries(lhs.networks), r \in Entries(rhs.networks) :
               Expanded(l, r) =>
                   \E i \in 1..Len(c) :
                       i % 2 = 1 /\ c[i].src = l /\ c[i].dst = r
        /\ ~OneWay => \A i \in 1..Len(c) : ~c[i].only_established

\* C6: for every compiled rule and every expanded pair (l, r) the forward
\* command src=l,dst=r is not established-only and the reverse command
\* src=r,dst=l is established-only exactly when the arrow is not
\* bidirectional; a bidirectional rule emits no established-only command,
\* and a one-way rule emits a command that is not established-only only from
\* a target of its left side to a target of its right side.
C6_ReverseEstablishedUnlessBidirectional ==
    Compiled =>
        /\ ForwardThenReverse
        /\ OneWay =>
               \A i \in 1..Len(Emitted) :
                   ~Emitted[i].only_established =>
                       /\ Emitted[i].src \in Entries(lhs.networks)
                       /\ Emitted[i].dst \in Entries(rhs.networks)

\* A one-way rule between a group of two and a host was compiled.
C6_Witness ==
    /\ Compiled
    /\ arrow = "=>"
    /\ Len(lhs.networks) >= 2
    /\ Len(Emitted) >= 4
    /\ Emitted[2].only_established
    /\ Emitted[2].src # Emitted[2].dst

\* C6 as stated: the same, but a one-way rule emits no command that is not
\* established-only from a target of its right side to a target of its left
\* side.
C6_OneWayNeverOpensRightToLeft ==
    Compiled =>
        /\ ForwardThenReverse
        /\ OneWay =>
               \A i \in 1..Len(Emitted) :
                   ~(/\ ~Emitted[i].only_established
                     /\ Emitted[i].src \in Entries(rhs.networks)
                     /\ Emitted[i].dst \in Entries(lhs.networks))

\* The rule was written with an arrow that points left.
PointsLeft == Len(rule_str) = 3 /\ rule_str[2] \in {"<-", "<="}

\* "B -> A" for "A <- B", "B => A" for "A <= B".
Mirror ==
    <<rule_str[3], IF rule_str[2] = "<-" THEN "->" ELSE "=>", rule_str[1]>>

\* What compiling the mirrored rule against the same hosts gives.
MirrorParsed == ParseRuleOn(hosts, Mirror)
MirrorEmitted ==
    IterateCommands([lhs |-> MirrorParsed.lhs, arrow |-> MirrorParsed.arrow,
                     rhs |-> MirrorParsed.rhs], Mirror, Ifname(hosts[1]))

WithoutRuleText(c) == [c EXCEPT !.comment.rule = NoRule]

\* C7: compiling "A <- B" ends as compiling "B -> A" does, with the same
\* exception or with a command sequence equal in IP version, interfaces,
\* source, destination, established-only flag and comment prefix; the
\* comment of every command carries the rule string as it was written, so
\* the comment texts of the two differ.  Likewise "A <= B" and "B => A".
C7_LeftArrowIsMirroredRightArrow ==
    PointsLeft =>
        /\ pc = "failed" => MirrorParsed.exc = error
        /\ pc = "parsed" =>
               /\ MirrorParsed.exc = "none"
               /\ MirrorParsed.lhs = lhs
               /\ MirrorParsed.arrow = arrow
               /\ MirrorParsed.rhs = rhs
        /\ Compiled =>
               /\ MirrorParsed.exc = "none"
               /\ Len(MirrorEmitted) = Len(Emitted)
               /\ \A i \in 1..Len(Emitted) :
                      /\ WithoutRuleText(Emitted[i])
                             = WithoutRuleText(MirrorEmitted[i])
                      /\ Emitted[i].comment.rule = rule_str
                      /\ MirrorEmitted[i].comment.rule = Mirror

\* "A <= B" with A and B different and several commands was compiled.
C7_Witness ==
    /\ PointsLeft
    /\ Compiled
    /\ rule_str[2] = "<="
    /\ rule_str[1] # rule_str[3]
    /\ lhs # rhs
    /\ Len(Emitted) >= 4

\* C7 as stated: the command sequence of "A <- B" equals that of "B -> A"
\* in every field, the comment text included.
C7_MirrorIdenticalInEveryField ==
    (PointsLeft /\ Compiled) => Emitted = MirrorEmitted

\* A "!" token whose text ip_network() does not take.
InvalidLiteral(symbol) ==
    symbol.sigil = "!" /\ IpNetwork(symbol.lit).exc # "none"

\* The constructor ended in _resolve of an invalid "!" token: that of the
\* left side after the swap, or that of the right side after the left side
\* was resolved.
FailedOnInvalidLiteral ==
    /\ pc = "failed"
    /\ MatchesRuleSyntax(rule_str)
    /\ LET m == Normalize([lhs |-> rule_str[1], arrow |-> rule_str[2],
                           rhs |-> rule_str[3]])
       IN  \/ InvalidLiteral(m.lhs)
           \/ /\ Resolve(hosts, m.lhs).exc = "none"
              /\ InvalidLiteral(m.rhs)

\* C10: resolving a side "!<text>" whose text is no valid network or
\* address literal ends with RuleParseException and leaves no parsed side
\* for it.
C10_InvalidLiteralIsRuleParseException ==
    FailedOnInvalidLiteral =>
        /\ error = "RuleParseException"
        /\ rhs = NoSide

\* C9: when the run has failed, nothing has been written: no key, no
\* configuration file, no iptables file and no command of an earlier rule.
C9_NoPartialOutputOnError ==
    pc = "failed" =>
        /\ artifacts = {}
        /\ Emitted = <<>>
        /\ file = <<>>

-----------------------------------------------------------------------------
(* Claims about the constructor.                                           *)

\* The hosts _assign_addresses is through with.
Served == 1..host_index

\* The slots of the assigned lists of those hosts.
Slots == { <<k, i>> : k \in Served, i \in 1..Len(_networks) }

AssigningOrDone == pc \in {"assign", "constructed"}

\* C11: once the fixed addresses are reserved and hosts get their addresses
\* in declaration order, every host served has one address per declared
\* network and none is null, the address in slot i lies inside the root of
\* network i, the fixed addresses of a host are among its addresses, and
\* all addresses of all hosts differ pairwise, across hosts and networks.
C11_FixedAndAssignedNeverCollide ==
    AssigningOrDone =>
        /\ \A k \in Served :
               /\ Len(hosts[k].assigned) = Len(_networks)
               /\ \A i \in 1..Len(fixed_address[k]) :
                      AddressTarget(fixed_address[k][i])
                          \in Entries(hosts[k].assigned)
        /\ \A s \in Slots :
               LET a == hosts[s[1]].assigned[s[2]]
               IN  /\ a # None
                   /\ a.kind = "address"
                   /\ InNetwork(a, _networks[s[2]].root_network)
        /\ \A s, t \in Slots :
               s # t => hosts[s[1]].assigned[s[2]]
                            # hosts[t[1]].assigned[t[2]]

\* A generator was constructed over two networks with a host that has a
\* fixed address and an earlier host that got its address of the same
\* network from assign().
C11_Witness ==
    /\ pc = "constructed"
    /\ Len(_networks) = 2
    /\ \E k, j \in Served :
           /\ j < k
           /\ fixed_address[k] # <<>>
           /\ fixed_address[j] = <<>>
           /\ hosts[j].assigned[1].addr + 1 = hosts[k].assigned[1].addr

-----------------------------------------------------------------------------
(* Claims about the order of the compiled output.                          *)

\* The targets of a resolved list that a version keeps: those of the
\* version and the wildcard.
OfVersion(list, ver) ==
    { i \in 1..Len(list) : list[i] = None \/ list[i].ver = ver }

\* The i-th of a set of list positions, in list order.
NthPosition(S, i) == CHOOSE x \in S : Cardinality({ y \in S : y < x }) = i - 1

\* The number of commands of one version.
CountFor(ver) ==
    2 * Cardinality(OfVersion(lhs.networks, ver))
      * Cardinality(OfVersion(rhs.networks, ver))

\* The commands of one version start after `base` commands: the pair of
\* the i-th kept left target and the j-th kept right target has its forward
\* command at place 2 * ((i - 1) * |R| + (j - 1)) + 1 and its reverse
\* command right after it.
InProductOrder(ver, prog, base) ==
    LET L == OfVersion(lhs.networks, ver)
        R == OfVersion(rhs.networks, ver)
    IN  \A i \in 1..Cardinality(L), j \in 1..Cardinality(R) :
            LET l == lhs.networks[NthPosition(L, i)]
                r == rhs.networks[NthPosition(R, j)]
                at == base + 2 * ((i - 1) * Cardinality(R) + (j - 1)) + 1
            IN  /\ Emitted[at].prog = prog
                /\ Emitted[at].src = l
                /\ Emitted[at].dst = r
                /\ Emitted[at + 1].prog = prog
                /\ Emitted[at + 1].src = r
                /\ Emitted[at + 1].dst = l

\* "* -> @lab" where lab has two members with one IPv4 address each.
StarToLabOfTwo ==
    /\ rule_str = <<Star, "->", Sym("@", "lab", NoLit)>>
    /\ Len(rhs.networks) = 2
    /\ \A i \in 1..2 : rhs.networks[i].ver = 4

\* C12: the commands of a compiled rule are those of version 4 and then
\* those of version 6; within a version they follow the product of the
\* kept left targets (outer) and the kept right targets (inner), forward
\* command then reverse command, so there are 2*|L4|*|R4| iptables commands
\* followed by 2*|L6|*|R6| ip6tables commands; a wildcard target stays
\* None in the command; "* -> @lab" with two IPv4 members gives two
\* forward and two reverse commands.
C12_VersionThenProductOrder ==
    Compiled =>
        /\ Len(Emitted) = CountFor(4) + CountFor(6)
        /\ InProductOrder(4, "iptables", 0)
        /\ InProductOrder(6, "ip6tables", CountFor(4))
        /\ \A i, j \in 1..Len(Emitted) :
               (Emitted[i].prog = "ip6tables" /\ Emitted[j].prog = "iptables")
                   => j < i
        /\ StarToLabOfTwo =>
               /\ Len(Emitted) = 4
               /\ \A i \in {1, 3} :
                      /\ Emitted[i].src = None
                      /\ ~Emitted[i].only_established
                      /\ Emitted[i + 1].dst = None
                      /\ Emitted[i + 1].only_established

\* A rule with two left and two right targets in both versions has been
\* compiled.
C12_Witness ==
    /\ Compiled
    /\ Cardinality(OfVersion(lhs.networks, 4)) >= 2
    /\ Cardinality(OfVersion(rhs.networks, 4)) >= 2
    /\ Cardinality(OfVersion(lhs.networks, 6)) >= 2
    /\ Len(Emitted) = 16
    /\ Emitted[3].src # Emitted[3].dst
    /\ Emitted[9].prog = "ip6tables"

-----------------------------------------------------------------------------
(* Claims about the host names.                                            *)

\* Two hosts of the configuration, concentrator or clients, carry one name.
HasDuplicateName ==
    \E j, k \in 1..Len(hosts) : j # k /\ hosts[j].name = hosts[k].name

\* C13: with two hosts of one name the construction gets no further than
\* the name check, where it ends with DuplicateNameException (unless the
\* networks before it could not be parsed), with no address reserved or
\* assigned; so a constructed generator has no two hosts of one name.
C13_DuplicateNameRejected ==
    HasDuplicateName =>
        /\ pc \in {"config", "names", "failed"}
        /\ pc = "failed" => error \in {"DuplicateNameException", "TypeError"}
        /\ fixed_address = <<>>
        /\ host_index = 0
        /\ \A k \in 1..Len(hosts) : hosts[k].assigned = <<>>

====
